---------------------------- MODULE Spec2Model ----------------------------
(* A model of qcat's trust-establishment core (src/src/crypto.rs) and of   *)
(* the way src/src/main.rs drives it.  Strings and DER blobs are sequences *)
(* of bytes (naturals); Rust's Option and Result are records.  main.rs     *)
(* names the passphrase accessor and constructor password() and            *)
(* generate_from_password(); they are read as crypto.rs's passphrase() and *)
(* generate_from_passphrase().                                             *)
EXTENDS Integers, Sequences, FiniteSets, TLC

(***************************************************************************)
(* Bytes and strings                                                       *)
(***************************************************************************)

\* PASSPHRASE_WORD_DELIM, the byte of '-'
PASSPHRASE_WORD_DELIM == 45

\* the byte of '\n', on which Wordlist::default splits the bundled file
NEWLINE == 10

\* longest string enumerated as an input of the encoder and the parser
MaxLen == 2

\* longest certificate enumerated as an input of the verifier
MaxCertLen == 2

None == [some |-> FALSE]

Some(x) == [some |-> TRUE, v |-> x]

Ok(x) == [ok |-> TRUE, v |-> x]

Err(e) == [ok |-> FALSE, err |-> e]

\* all byte strings over alphabet A of length at most n
Strs(A, n) == UNION {[1..k -> A] : k \in 0..n}

\* n copies of byte c
Rep(c, n) == [i \in 1..n |-> c]

RECURSIVE FindFrom(_, _, _)
\* index of the first occurrence of byte d in s at or after i, 0 when none
FindFrom(s, d, i) ==
    IF i > Len(s) THEN 0
    ELSE IF s[i] = d THEN i
    ELSE FindFrom(s, d, i + 1)

RECURSIVE FindLastFrom(_, _, _)
FindLastFrom(s, d, i) ==
    IF i < 1 THEN 0
    ELSE IF s[i] = d THEN i
    ELSE FindLastFrom(s, d, i - 1)

\* a faulty split: at the last delimiter (str::rsplit_once)
rsplit_once(s, d) ==
    LET i == FindLastFrom(s, d, Len(s))
    IN  IF i = 0 THEN None
        ELSE Some(<<SubSeq(s, 1, i - 1), SubSeq(s, i + 1, Len(s))>>)

\* str::split_once as from_str uses it: split at the first delimiter
split_once(s, d) ==
    LET i == FindFrom(s, d, 1)
    IN  IF i = 0 THEN None
        ELSE Some(<<SubSeq(s, 1, i - 1), SubSeq(s, i + 1, Len(s))>>)

VARIABLES
    p_pc, p_S, p_str, p_res,      \* the encoder and the parser on small inputs
    v_pc, v_self, v_call, v_ret,  \* one verifier, one call
    words_alpha, \* the bytes of the bundled words_alpha.txt
    s_pc,        \* the listening peer's place in main
    wordlist,    \* the Wordlist of generate_passphrase
    g_salt,      \* generate_passphrase's salt
    g_passphrase, \* generate_passphrase's passphrase, as built so far
    g_i,         \* the index of generate_passphrase's for_each
    s_crypto,    \* the listening peer's CryptoMaterial
    logged,      \* the passphrase line the listening peer logs
    s_config,    \* the listening peer's ServerConfig
    c_pc,        \* the connecting peer's place in main
    c_input,     \* the string typed at the connecting peer's prompt
    c_crypto,    \* the connecting peer's CryptoMaterial
    c_config,    \* the connecting peer's ClientConfig
    c_err,       \* the error main returns at the connecting peer
    hs,          \* the handshake made with the listening peer
    k_verifier,  \* the verifier every connection of a listener shares
    k_listener,  \* the listener's state
    k_conns      \* the connections the listener has accepted

pvars == <<p_pc, p_S, p_str, p_res>>

vvars == <<v_pc, v_self, v_call, v_ret>>

svars == <<words_alpha, s_pc, wordlist, g_salt, g_passphrase, g_i, s_crypto, logged, s_config>>

cvars == <<c_pc, c_input, c_crypto, c_config, c_err>>

mvars == <<svars, cvars, hs>>

kvars == <<k_verifier, k_listener, k_conns>>

vars == <<pvars, vvars, mvars, kvars>>

(***************************************************************************)
(* SaltedPassphrase                                                        *)
(***************************************************************************)

SaltedPassphrase(s, p) == [salt |-> s, passphrase |-> p]

\* a faulty parser: any string parses, one without a delimiter as a bare salt
from_str_lenient(s) ==
    LET split == split_once(s, PASSPHRASE_WORD_DELIM)
    IN  IF split.some
        THEN Ok(SaltedPassphrase(split.v[1], split.v[2]))
        ELSE Ok(SaltedPassphrase(s, <<>>))

\* impl FromStr for SaltedPassphrase
from_str(s) ==
    LET split == split_once(s, PASSPHRASE_WORD_DELIM)
    IN  IF split.some
        THEN Ok(SaltedPassphrase(split.v[1], split.v[2]))
        ELSE Err("SaltedPassphraseParseError")

\* impl fmt::Display for SaltedPassphrase: "{}-{}"
fmt(sp) == sp.salt \o <<PASSPHRASE_WORD_DELIM>> \o sp.passphrase

passphrase_as_bytes(sp) == sp.passphrase

salt_as_bytes(sp) == sp.salt

(***************************************************************************)
(* The encoder and the parser, applied to every small input                *)
(***************************************************************************)

\* '-' and 'a'
ParseAlphabet == {PASSPHRASE_WORD_DELIM, 97}

ParseInit ==
    /\ p_res = None
    /\ \/ /\ p_pc = "value"
          /\ p_S \in {SaltedPassphrase(s, p) :
                        s \in Strs(ParseAlphabet, MaxLen),
                        p \in Strs(ParseAlphabet, MaxLen)}
          /\ p_str = <<>>
       \/ /\ p_pc = "string"
          /\ p_S = None
          /\ p_str \in Strs(ParseAlphabet, MaxLen + 1)
    /\ v_pc = "off"
    /\ v_self = None
    /\ v_call = None
    /\ v_ret = None
    /\ words_alpha = <<>>
    /\ s_pc = "off"
    /\ wordlist = None
    /\ g_salt = None
    /\ g_passphrase = <<>>
    /\ g_i = 0
    /\ s_crypto = None
    /\ logged = None
    /\ s_config = None
    /\ c_pc = "off"
    /\ c_input = None
    /\ c_crypto = None
    /\ c_config = None
    /\ c_err = None
    /\ hs = None
    /\ k_verifier = None
    /\ k_listener = "off"
    /\ k_conns = <<>>

\* to_string() of a SaltedPassphrase value
Format ==
    /\ p_pc = "value"
    /\ p_str' = fmt(p_S)
    /\ p_pc' = "formatted"
    /\ UNCHANGED <<p_S, p_res, vvars, mvars, kvars>>

\* str::parse::<SaltedPassphrase>() of the encoded form
ParseFormatted ==
    /\ p_pc = "formatted"
    /\ p_res' = Some(from_str(p_str))
    /\ p_pc' = "reparsed"
    /\ UNCHANGED <<p_S, p_str, vvars, mvars, kvars>>

\* str::parse::<SaltedPassphrase>() of an arbitrary string
ParseString ==
    /\ p_pc = "string"
    /\ p_res' = Some(from_str(p_str))
    /\ p_pc' = "parsed"
    /\ UNCHANGED <<p_S, p_str, vvars, mvars, kvars>>

ParseNext == Format \/ ParseFormatted \/ ParseString

HasDelim(s) == \E i \in 1..Len(s) : s[i] = PASSPHRASE_WORD_DELIM

\* C4: for every SaltedPassphrase whose salt holds no '-', parsing its
\* encoded form gives back exactly its salt and its passphrase.
RoundTrip ==
    (p_pc = "reparsed" /\ ~HasDelim(p_S.salt))
        => (p_res.v.ok /\ p_res.v.v = p_S)

\* a round trip was made of a value whose passphrase holds delimiters
RoundTripWitness ==
    /\ p_pc = "reparsed"
    /\ ~HasDelim(p_S.salt)
    /\ Len(p_S.salt) > 0
    /\ HasDelim(p_S.passphrase)
    /\ p_res.v.ok

\* C5: a string without '-' (the empty one included) fails to parse with
\* SaltedPassphraseParseError and yields no value; a string with a '-'
\* always parses.
ParseFailure ==
    p_pc \in {"parsed", "reparsed"} =>
        IF HasDelim(p_str)
        THEN p_res.v.ok
        ELSE p_res.v = Err("SaltedPassphraseParseError")

\* a non-empty string without delimiter was refused
ParseFailureWitness ==
    /\ p_pc = "parsed"
    /\ Len(p_str) > 0
    /\ ~HasDelim(p_str)
    /\ ~p_res.v.ok

(***************************************************************************)
(* PinnedCertVerifier                                                      *)
(***************************************************************************)

\* rustls' SignatureScheme
SignatureScheme ==
    {"RSA_PKCS1_SHA1", "ECDSA_SHA1_Legacy", "RSA_PKCS1_SHA256",
     "ECDSA_NISTP256_SHA256", "RSA_PKCS1_SHA384", "ECDSA_NISTP384_SHA384",
     "RSA_PKCS1_SHA512", "ECDSA_NISTP521_SHA512", "RSA_PSS_SHA256",
     "RSA_PSS_SHA384", "RSA_PSS_SHA512", "ED25519", "ED448", "Unknown"}

\* provider.signature_verification_algorithms.mapping of the aws_lc_rs
\* provider QcatCryptoConfig::new installs: (scheme, algorithms) in order.
\* ED448 is not registered.
ProviderMapping ==
    << <<"ECDSA_NISTP384_SHA384", <<"ECDSA_P384_SHA384", "ECDSA_P256_SHA384">> >>,
       <<"ECDSA_NISTP256_SHA256", <<"ECDSA_P256_SHA256", "ECDSA_P384_SHA256">> >>,
       <<"ECDSA_NISTP521_SHA512", <<"ECDSA_P521_SHA512">> >>,
       <<"ED25519", <<"ED25519">> >>,
       <<"RSA_PSS_SHA512", <<"RSA_PSS_2048_8192_SHA512">> >>,
       <<"RSA_PSS_SHA384", <<"RSA_PSS_2048_8192_SHA384">> >>,
       <<"RSA_PSS_SHA256", <<"RSA_PSS_2048_8192_SHA256">> >>,
       <<"RSA_PKCS1_SHA512", <<"RSA_PKCS1_2048_8192_SHA512">> >>,
       <<"RSA_PKCS1_SHA384", <<"RSA_PKCS1_2048_8192_SHA384">> >>,
       <<"RSA_PKCS1_SHA256", <<"RSA_PKCS1_2048_8192_SHA256">> >> >>

WebPkiSupportedAlgorithms == [mapping |-> ProviderMapping]

\* WebPkiSupportedAlgorithms::supported_schemes
supported_schemes(algs) == [i \in 1..Len(algs.mapping) |-> algs.mapping[i][1]]

\* PinnedCertVerifier::new
PinnedCertVerifier_new(pinned_cert, supported_algs) ==
    [pinned_cert |-> pinned_cert,
     supported_algs |-> supported_algs,
     root_hints |-> <<>>]

RECURSIVE ct_fold(_, _, _, _)
\* the loop of subtle's ConstantTimeEq for slices: x &= a[i].ct_eq(b[i])
ct_fold(a, b, i, x) ==
    IF i > Len(a) \/ i > Len(b) THEN x
    ELSE ct_fold(a, b, i + 1, IF a[i] = b[i] THEN x ELSE 0)

\* subtle's ConstantTimeEq for slices: 0 at once for unequal lengths
ct_eq(a, b) == IF Len(a) # Len(b) THEN 0 ELSE ct_fold(a, b, 1, 1)

\* a faulty comparison: the length check is missing, so that the zipped
\* loop accepts a presented certificate that is a prefix of the pinned one
pinned_cert_is_valid_nolen(expected_pinned_cert, end_entity_cert) ==
    ct_fold(expected_pinned_cert, end_entity_cert, 1, 1) = 1

\* fn pinned_cert_is_valid
pinned_cert_is_valid(expected_pinned_cert, end_entity_cert) ==
    ct_eq(expected_pinned_cert, end_entity_cert) = 1

\* ServerCertVerifier::verify_server_cert
verify_server_cert(self, end_entity, intermediates, server_name, ocsp_response, now) ==
    IF pinned_cert_is_valid(self.pinned_cert, end_entity)
    THEN Ok("ServerCertVerified")
    ELSE Err("InvalidCertificate(InvalidPurpose)")

\* ClientCertVerifier::verify_client_cert
verify_client_cert(self, end_entity, intermediates, now) ==
    IF pinned_cert_is_valid(self.pinned_cert, end_entity)
    THEN Ok("ClientCertVerified")
    ELSE Err("InvalidCertificate(InvalidPurpose)")

\* a faulty allow-list: every scheme passes the gate
signature_scheme_is_supported_any(scheme) == scheme \in SignatureScheme

\* fn signature_scheme_is_supported
signature_scheme_is_supported(scheme) ==
    scheme \in {"ECDSA_NISTP256_SHA256", "ECDSA_NISTP384_SHA384",
                "ECDSA_NISTP521_SHA512", "ED25519", "ED448",
                "RSA_PSS_SHA512"}

RECURSIVE mapping_find(_, _, _)
\* the filter_map(..).next() of convert_scheme: the first entry of the scheme
mapping_find(mapping, scheme, i) ==
    IF i > Len(mapping) THEN None
    ELSE IF mapping[i][1] = scheme THEN Some(mapping[i][2])
    ELSE mapping_find(mapping, scheme, i + 1)

\* fn convert_scheme
convert_scheme(supported_algs, scheme) ==
    LET found == mapping_find(supported_algs.mapping, scheme, 1)
    IN  IF found.some THEN Ok(found.v)
        ELSE Err("PeerMisbehaved(SignedHandshakeWithUnadvertisedSigScheme)")

\* webpki's EndEntityCert::try_from: the blob must be a DER SEQUENCE (tag
\* 48); what follows the tag stands for the subject public key
EndEntityCert_try_from(cert) ==
    IF Len(cert) >= 1 /\ cert[1] = 48
    THEN Ok([spki |-> SubSeq(cert, 2, Len(cert))])
    ELSE Err("BadDer")

\* a signature is the term (algorithm, signing key, message)
Signature(alg, key, message) == [alg |-> alg, key |-> key, msg |-> message]

\* EndEntityCert::verify_signature
verify_signature(cert, alg, message, signature) ==
    IF signature = Signature(alg, cert.spki, message)
    THEN Ok("verified")
    ELSE Err("InvalidSignatureForPublicKey")

\* fn verify_tls13_signature.  The result comes with the stages that ran.
verify_tls13_signature(message, cert, dss, supported_algs) ==
    IF ~signature_scheme_is_supported(dss.scheme)
    THEN [ret |-> Err("PeerMisbehaved(SignedHandshakeWithUnadvertisedSigScheme)"),
          ran |-> <<>>]
    ELSE
      LET algs == convert_scheme(supported_algs, dss.scheme)
      IN  IF ~algs.ok
          THEN [ret |-> algs, ran |-> <<"convert_scheme">>]
          ELSE
            LET alg == algs.v[1]
                parsed == EndEntityCert_try_from(cert)
            IN  IF ~parsed.ok
                THEN [ret |-> Err("General(Failed to parse cert)"),
                      ran |-> <<"convert_scheme", "try_from">>]
                ELSE
                  LET checked == verify_signature(parsed.v, alg, message,
                                                  dss.signature)
                  IN  [ret |-> IF checked.ok
                               THEN Ok("HandshakeSignatureValid")
                               ELSE Err("General(Failed to verify signature)"),
                       ran |-> <<"convert_scheme", "try_from",
                                 "verify_signature">>]

\* ServerCertVerifier::verify_tls13_signature
ServerCertVerifier_verify_tls13_signature(self, message, cert, dss) ==
    verify_tls13_signature(message, cert, dss, self.supported_algs)

\* ClientCertVerifier::verify_tls13_signature
ClientCertVerifier_verify_tls13_signature(self, message, cert, dss) ==
    verify_tls13_signature(message, cert, dss, self.supported_algs)

\* ServerCertVerifier::verify_tls12_signature
ServerCertVerifier_verify_tls12_signature(self, message, cert, dss) ==
    [ret |-> Err("PeerIncompatible(Tls13RequiredForQuic)"), ran |-> <<>>]

\* ClientCertVerifier::verify_tls12_signature
ClientCertVerifier_verify_tls12_signature(self, message, cert, dss) ==
    [ret |-> Err("PeerIncompatible(Tls13RequiredForQuic)"), ran |-> <<>>]

\* supported_verify_schemes, the same in both roles
supported_verify_schemes(self) == supported_schemes(self.supported_algs)

(***************************************************************************)
(* Key and certificate derivation                                          *)
(***************************************************************************)

\* argon2's RECOMMENDED_SALT_LEN
RECOMMENDED_SALT_LEN == 16

\* argon2's MIN_SALT_LEN, below which hash_password_into fails
MIN_SALT_LEN == 8

PASSPHRASE_WORD_COUNT == 3

\* Argon2::default().hash_password_into: a collision-free function of
\* (salt, password), written as their length-prefixed concatenation
hash_password_into(pwd, salt) ==
    IF Len(salt) < MIN_SALT_LEN THEN Err("SaltTooShort")
    ELSE Ok(<<Len(salt)>> \o salt \o pwd)

\* SigningKey::from_bytes(..).to_pkcs8_der(): the seed in a DER SEQUENCE
to_pkcs8_der(seed) == <<48>> \o seed

\* the Ed25519 public key of a seed (tag 32 marks a public key)
verifying_key(seed) == <<32>> \o seed

\* a faulty derivation: the passphrase is left out of the hash
derive_private_key_salt_only(passphrase) ==
    LET derived == hash_password_into(<<>>, salt_as_bytes(passphrase))
    IN  IF ~derived.ok THEN derived ELSE Ok(to_pkcs8_der(derived.v))

\* CryptoMaterial::derive_private_key
derive_private_key(passphrase) ==
    LET derived == hash_password_into(passphrase_as_bytes(passphrase),
                                      salt_as_bytes(passphrase))
    IN  IF ~derived.ok THEN derived ELSE Ok(to_pkcs8_der(derived.v))

\* KeyPair::from_pkcs8_der_and_sign_algo
KeyPair_from_pkcs8_der(private_key_der) ==
    IF Len(private_key_der) >= 1 /\ private_key_der[1] = 48
    THEN Ok([seed |-> Tail(private_key_der),
             public |-> verifying_key(Tail(private_key_der))])
    ELSE Err("CouldNotParseKeyPair")

\* CryptoMaterial::generate_certificate.  With rcgen's default parameters
\* (fixed validity, serial number hashed from the public key, Ed25519's
\* deterministic signature) the DER is a function of the key alone: a
\* SEQUENCE holding the public key.
generate_certificate(private_key_der) ==
    LET signing_keypair == KeyPair_from_pkcs8_der(private_key_der)
    IN  IF ~signing_keypair.ok THEN signing_keypair
        ELSE Ok(<<48>> \o signing_keypair.v.public)

CryptoMaterial(passphrase, private_key, certificate) ==
    [passphrase |-> passphrase,
     private_key |-> private_key,
     certificate |-> certificate]

\* a faulty constructor: salt and passphrase change places in the hash
generate_from_passphrase_swapped(passphrase) ==
    LET private_key ==
          derive_private_key(SaltedPassphrase(passphrase.passphrase,
                                              passphrase.salt))
    IN  IF ~private_key.ok THEN private_key
        ELSE LET certificate == generate_certificate(private_key.v)
             IN  IF ~certificate.ok THEN certificate
                 ELSE Ok(CryptoMaterial(passphrase, private_key.v,
                                        certificate.v))

\* CryptoMaterial::generate_from_passphrase
generate_from_passphrase(passphrase) ==
    LET private_key == derive_private_key(passphrase)
    IN  IF ~private_key.ok THEN private_key
        ELSE LET certificate == generate_certificate(private_key.v)
             IN  IF ~certificate.ok THEN certificate
                 ELSE Ok(CryptoMaterial(passphrase, private_key.v,
                                        certificate.v))

\* CryptoMaterial::generate, after generate_passphrase has returned
generate(passphrase) ==
    LET private_key == derive_private_key(passphrase)
    IN  IF ~private_key.ok THEN private_key
        ELSE LET certificate == generate_certificate(private_key.v)
             IN  IF ~certificate.ok THEN certificate
                 ELSE Ok(CryptoMaterial(passphrase, private_key.v,
                                        certificate.v))

(***************************************************************************)
(* Wordlist                                                                *)
(***************************************************************************)

RECURSIVE split(_, _)
\* str::split: the pieces between delimiters, one more than delimiters
split(s, d) ==
    LET i == FindFrom(s, d, 1)
    IN  IF i = 0 THEN <<s>>
        ELSE <<SubSeq(s, 1, i - 1)>> \o split(SubSeq(s, i + 1, Len(s)), d)

\* Wordlist::default over the bundled file
Wordlist_default(file) == [words |-> split(file, NEWLINE)]

\* a faulty index: the last word is never drawn
get_word_offsets_short(self) == 1..(Len(self.words) - 1)

\* Wordlist::get_word: the offsets next_u64() % words.len() can take
get_word_offsets(self) == 1..Len(self.words)

\* a faulty test: any non-empty word is taken as the salt
salt_accepted_nonempty(possible_salt) == Len(possible_salt) > 0

\* Wordlist::get_salt: the test that ends the loop
salt_accepted(possible_salt) == Len(possible_salt) >= RECOMMENDED_SALT_LEN

(***************************************************************************)
(* QcatCryptoConfig                                                        *)
(***************************************************************************)

\* b"qcat"
QCAT_ALPN == <<113, 99, 97, 116>>

QcatAlpnProtocol_new == <<QCAT_ALPN>>

SUPPORTED_TLS_VERSIONS == {"TLS13"}

\* QcatCryptoConfig::new
QcatCryptoConfig_new(pinned_cert, pinned_cert_private_key) ==
    [provider |-> [signature_verification_algorithms |->
                     WebPkiSupportedAlgorithms],
     pinned_cert |-> pinned_cert,
     pinned_cert_private_key |-> pinned_cert_private_key,
     alpn_protocol |-> QcatAlpnProtocol_new]

\* QcatCryptoConfig::build_verifier
build_verifier(self) ==
    PinnedCertVerifier_new(self.pinned_cert,
                           self.provider.signature_verification_algorithms)

\* QcatCryptoConfig::build_client_config
build_client_config(self) ==
    IF ~KeyPair_from_pkcs8_der(self.pinned_cert_private_key).ok
    THEN Err("General(failed to parse private key)")
    ELSE Ok([role |-> "client",
             versions |-> SUPPORTED_TLS_VERSIONS,
             verifier |-> Some(build_verifier(self)),
             cert_chain |-> <<self.pinned_cert>>,
             key |-> self.pinned_cert_private_key,
             alpn_protocols |-> self.alpn_protocol])

\* a faulty server configuration: built with_no_client_auth
build_server_config_no_client_auth(self) ==
    IF ~KeyPair_from_pkcs8_der(self.pinned_cert_private_key).ok
    THEN Err("General(failed to parse private key)")
    ELSE Ok([role |-> "server",
             versions |-> SUPPORTED_TLS_VERSIONS,
             verifier |-> None,
             cert_chain |-> <<self.pinned_cert>>,
             key |-> self.pinned_cert_private_key,
             alpn_protocols |-> self.alpn_protocol])

\* QcatCryptoConfig::build_server_config
build_server_config(self) ==
    IF ~KeyPair_from_pkcs8_der(self.pinned_cert_private_key).ok
    THEN Err("General(failed to parse private key)")
    ELSE Ok([role |-> "server",
             versions |-> SUPPORTED_TLS_VERSIONS,
             verifier |-> Some(build_verifier(self)),
             cert_chain |-> <<self.pinned_cert>>,
             key |-> self.pinned_cert_private_key,
             alpn_protocols |-> self.alpn_protocol])

\* ClientCertVerifier's provided methods, which PinnedCertVerifier keeps:
\* offer_client_auth() is true and client_auth_mandatory() is
\* offer_client_auth()
client_auth_mandatory(self) == TRUE

(***************************************************************************)
(* One verifier, one call on it, over every small input                    *)
(***************************************************************************)

Certs == Strs({48, 1}, MaxCertLen)

Messages == {<<>>, <<7>>}

\* the algorithm a signer uses for a scheme
AlgFor(scheme) ==
    LET found == mapping_find(ProviderMapping, scheme, 1)
    IN  IF found.some THEN found.v[1] ELSE scheme

\* the signature of the certificate's key holder, and a forged one
SigChoices(cert, message, scheme) ==
    {Signature(AlgFor(scheme), SubSeq(cert, 2, Len(cert)), message),
     Signature(AlgFor(scheme), <<9>>, message)}

VerifyInit ==
    /\ p_pc = "off"
    /\ p_S = None
    /\ p_str = <<>>
    /\ p_res = None
    /\ v_pc = "idle"
    /\ v_self \in {PinnedCertVerifier_new(P, WebPkiSupportedAlgorithms) :
                     P \in Certs}
    /\ v_call = None
    /\ v_ret = None
    /\ words_alpha = <<>>
    /\ s_pc = "off"
    /\ wordlist = None
    /\ g_salt = None
    /\ g_passphrase = <<>>
    /\ g_i = 0
    /\ s_crypto = None
    /\ logged = None
    /\ s_config = None
    /\ c_pc = "off"
    /\ c_input = None
    /\ c_crypto = None
    /\ c_config = None
    /\ c_err = None
    /\ hs = None
    /\ k_verifier = None
    /\ k_listener = "off"
    /\ k_conns = <<>>

CallVerifyServerCert ==
    /\ v_pc = "idle"
    /\ \E E \in Certs, intermediates \in {<<>>, << <<48>> >>},
          server_name \in {"localhost", "example.com"},
          ocsp_response \in {<<>>, <<1>>}, now \in {0, 1} :
          /\ v_call' = [method |-> "verify_server_cert", end_entity |-> E,
                        intermediates |-> intermediates,
                        server_name |-> server_name,
                        ocsp_response |-> ocsp_response, now |-> now]
          /\ v_ret' = [ret |-> verify_server_cert(v_self, E, intermediates,
                                   server_name, ocsp_response, now),
                       ran |-> <<>>]
    /\ v_pc' = "returned"
    /\ UNCHANGED <<v_self, pvars, mvars, kvars>>

CallVerifyClientCert ==
    /\ v_pc = "idle"
    /\ \E E \in Certs, intermediates \in {<<>>, << <<48>> >>},
          now \in {0, 1} :
          /\ v_call' = [method |-> "verify_client_cert", end_entity |-> E,
                        intermediates |-> intermediates, now |-> now]
          /\ v_ret' = [ret |-> verify_client_cert(v_self, E, intermediates,
                                                  now),
                       ran |-> <<>>]
    /\ v_pc' = "returned"
    /\ UNCHANGED <<v_self, pvars, mvars, kvars>>

CallVerifyTls12Signature ==
    /\ v_pc = "idle"
    /\ \E role \in {"ServerCertVerifier", "ClientCertVerifier"},
          message \in Messages, cert \in Certs, scheme \in SignatureScheme :
        \E sig \in SigChoices(cert, message, scheme) :
          LET dss == [scheme |-> scheme, signature |-> sig]
          IN  /\ v_call' = [method |-> "verify_tls12_signature",
                            role |-> role, message |-> message,
                            cert |-> cert, dss |-> dss]
              /\ v_ret' =
                   IF role = "ServerCertVerifier"
                   THEN ServerCertVerifier_verify_tls12_signature(
                            v_self, message, cert, dss)
                   ELSE ClientCertVerifier_verify_tls12_signature(
                            v_self, message, cert, dss)
    /\ v_pc' = "returned"
    /\ UNCHANGED <<v_self, pvars, mvars, kvars>>

CallVerifyTls13Signature ==
    /\ v_pc = "idle"
    /\ \E role \in {"ServerCertVerifier", "ClientCertVerifier"},
          message \in Messages, cert \in Certs, scheme \in SignatureScheme :
        \E sig \in SigChoices(cert, message, scheme) :
          LET dss == [scheme |-> scheme, signature |-> sig]
          IN  /\ v_call' = [method |-> "verify_tls13_signature",
                            role |-> role, message |-> message,
                            cert |-> cert, dss |-> dss]
              /\ v_ret' =
                   IF role = "ServerCertVerifier"
                   THEN ServerCertVerifier_verify_tls13_signature(
                            v_self, message, cert, dss)
                   ELSE ClientCertVerifier_verify_tls13_signature(
                            v_self, message, cert, dss)
    /\ v_pc' = "returned"
    /\ UNCHANGED <<v_self, pvars, mvars, kvars>>

VerifyNext ==
    \/ CallVerifyServerCert
    \/ CallVerifyClientCert
    \/ CallVerifyTls12Signature
    \/ CallVerifyTls13Signature

\* C1: in both roles the verifier pinned to P accepts E exactly when the
\* bytes of E are those of P, and refuses with an invalid-certificate error
\* otherwise, whatever the intermediates, server name, OCSP response and time.
PinningSymmetry ==
    (v_pc = "returned"
       /\ v_call.method \in {"verify_server_cert", "verify_client_cert"})
    => /\ v_ret.ret.ok <=> (v_call.end_entity = v_self.pinned_cert)
       /\ ~v_ret.ret.ok => v_ret.ret.err = "InvalidCertificate(InvalidPurpose)"

\* a proper prefix of the pinned certificate was presented and refused
PinningSymmetryWitness ==
    /\ v_pc = "returned"
    /\ v_call.method = "verify_client_cert"
    /\ Len(v_call.end_entity) = 1
    /\ Len(v_self.pinned_cert) = 2
    /\ v_call.end_entity[1] = v_self.pinned_cert[1]
    /\ ~v_ret.ret.ok

\* C6: in both roles, a TLS 1.3 signature under a scheme outside the
\* allow-list is refused before the provider mapping is consulted, the
\* certificate parsed or the signature checked; a TLS 1.2 signature is
\* always refused as peer-incompatible.
SchemeGating ==
    v_pc = "returned" =>
      /\ (v_call.method = "verify_tls13_signature"
            /\ v_call.dss.scheme \notin
                 {"ECDSA_NISTP256_SHA256", "ECDSA_NISTP384_SHA384",
                  "ECDSA_NISTP521_SHA512", "ED25519", "ED448",
                  "RSA_PSS_SHA512"})
         => (~v_ret.ret.ok /\ v_ret.ran = <<>>)
      /\ v_call.method = "verify_tls12_signature"
         => v_ret.ret = Err("PeerIncompatible(Tls13RequiredForQuic)")

\* a scheme the provider registers but the allow-list lacks was refused,
\* though the certificate was the pinned one and its holder had signed
SchemeGatingWitness ==
    /\ v_pc = "returned"
    /\ v_call.method = "verify_tls13_signature"
    /\ v_call.dss.scheme = "RSA_PSS_SHA256"
    /\ v_call.cert = v_self.pinned_cert
    /\ EndEntityCert_try_from(v_call.cert).ok
    /\ v_call.dss.signature.key = SubSeq(v_call.cert, 2, Len(v_call.cert))
    /\ ~v_ret.ret.ok

(***************************************************************************)
(* The handshake the two configurations are given to                       *)
(***************************************************************************)

\* the handshake transcript that CertificateVerify signs
Transcript == <<7>>

\* what the holder of a private key sends as CertificateVerify
certificate_verify(key) ==
    [scheme |-> "ED25519",
     signature |-> Signature("ED25519", verifying_key(Tail(key)), Transcript)]

\* the client's check of the server's Certificate and CertificateVerify
client_verdict(client, server) ==
    IF ~client.verifier.some THEN Ok("unverified")
    ELSE LET cert == verify_server_cert(client.verifier.v,
                         server.cert_chain[1], <<>>, "localhost", <<>>, 0)
         IN  IF ~cert.ok THEN cert
             ELSE ServerCertVerifier_verify_tls13_signature(
                      client.verifier.v, Transcript, server.cert_chain[1],
                      certificate_verify(server.key)).ret

\* the server's check of the client's Certificate and CertificateVerify
server_verdict(client, server) ==
    IF ~server.verifier.some THEN Ok("NoClientAuth")
    ELSE IF client.cert_chain = <<>>
         THEN IF client_auth_mandatory(server.verifier.v)
              THEN Err("NoCertificatesPresented")
              ELSE Ok("anonymous")
         ELSE LET cert == verify_client_cert(server.verifier.v,
                              client.cert_chain[1], <<>>, 0)
              IN  IF ~cert.ok THEN cert
                  ELSE ClientCertVerifier_verify_tls13_signature(
                           server.verifier.v, Transcript,
                           client.cert_chain[1],
                           certificate_verify(client.key)).ret

\* a TLS 1.3 handshake with client authentication between a ClientConfig
\* and a ServerConfig: version and ALPN, then the server's identity, then
\* the client's
handshake(client, server) ==
    IF client.versions \cap server.versions = {}
    THEN [client |-> Err("PeerIncompatible"),
          server |-> Err("PeerIncompatible"), complete |-> FALSE]
    ELSE IF ~\E a \in 1..Len(client.alpn_protocols) :
               \E b \in 1..Len(server.alpn_protocols) :
                   client.alpn_protocols[a] = server.alpn_protocols[b]
    THEN [client |-> Err("NoApplicationProtocol"),
          server |-> Err("NoApplicationProtocol"), complete |-> FALSE]
    ELSE LET c == client_verdict(client, server)
         IN  IF ~c.ok
             THEN [client |-> c, server |-> Err("AlertReceived"),
                   complete |-> FALSE]
             ELSE LET v == server_verdict(client, server)
                  IN  [client |-> c, server |-> v, complete |-> v.ok]

(***************************************************************************)
(* main: the listening peer, the connecting peer and one handshake         *)
(***************************************************************************)

\* 16 and 17 letters: words long enough to be a salt
LongA == Rep(97, RECOMMENDED_SALT_LEN)

LongB == Rep(98, RECOMMENDED_SALT_LEN + 1)

\* bundled files: "ab\naaaaaaaaaaaaaaaa", "b\nbbbbbbbbbbbbbbbbb\naaaaaaaaaaaaaaaa\n",
\* "ab\nb" and the empty file
Files ==
    {<<97, 98, NEWLINE>> \o LongA,
     <<98, NEWLINE>> \o LongB \o <<NEWLINE>> \o LongA \o <<NEWLINE>>,
     <<97, 98, NEWLINE, 98>>,
     <<>>}

\* every offset get_word can draw from one of the files
Offsets == UNION {1..Len(split(f, NEWLINE)) : f \in Files}

\* the other of the two letters 'a' and 'b'
Flip(b) == IF b = 97 THEN 98 ELSE 97

\* what an operator may type, having read the logged line s: s itself, s
\* with its last or its first byte changed, s without its first nine
\* bytes, s with a leading '-', and the salt of s alone
Inputs(s) ==
    {s,
     [s EXCEPT ![Len(s)] = Flip(s[Len(s)])],
     [s EXCEPT ![1] = Flip(s[1])],
     SubSeq(s, 10, Len(s)),
     <<PASSPHRASE_WORD_DELIM>> \o s,
     SubSeq(s, 1, FindFrom(s, PASSPHRASE_WORD_DELIM, 1) - 1)}

\* a peer that is not the connecting peer: its own key, no verifier, and a
\* certificate chain of its choice
IntruderKey == to_pkcs8_der(<<66>>)

Intruder(chain) ==
    [role |-> "intruder",
     versions |-> SUPPORTED_TLS_VERSIONS,
     verifier |-> None,
     cert_chain |-> chain,
     key |-> IntruderKey,
     alpn_protocols |-> <<QCAT_ALPN>>]

Init ==
    /\ p_pc = "off"
    /\ p_S = None
    /\ p_str = <<>>
    /\ p_res = None
    /\ v_pc = "off"
    /\ v_self = None
    /\ v_call = None
    /\ v_ret = None
    /\ words_alpha \in Files
    /\ s_pc = "start"
    /\ wordlist = None
    /\ g_salt = None
    /\ g_passphrase = <<>>
    /\ g_i = 0
    /\ s_crypto = None
    /\ logged = None
    /\ s_config = None
    /\ c_pc = "start"
    /\ c_input = None
    /\ c_crypto = None
    /\ c_config = None
    /\ c_err = None
    /\ hs = None
    /\ k_verifier = None
    /\ k_listener = "off"
    /\ k_conns = <<>>

\* main, listening: CryptoMaterial::generate enters generate_passphrase,
\* which loads the word list and enters get_salt
GenerateStart ==
    /\ s_pc = "start"
    /\ wordlist' = Some(Wordlist_default(words_alpha))
    /\ s_pc' = "get_salt"
    /\ UNCHANGED <<words_alpha, g_salt, g_passphrase, g_i, s_crypto, logged, s_config>>
    /\ UNCHANGED <<pvars, vvars, cvars, hs, kvars>>

\* one round of get_salt's loop, get_word having drawn offset
GetSalt(offset) ==
    /\ s_pc = "get_salt"
    /\ offset \in get_word_offsets(wordlist.v)
    /\ LET possible_salt == wordlist.v.words[offset]
       IN  IF salt_accepted(possible_salt)
           THEN /\ g_salt' = Some(possible_salt)
                /\ s_pc' = "for_each"
           ELSE UNCHANGED <<g_salt, s_pc>>
    /\ UNCHANGED <<words_alpha, wordlist, g_passphrase, g_i, s_crypto, logged, s_config>>
    /\ UNCHANGED <<pvars, vvars, cvars, hs, kvars>>

\* one round of generate_passphrase's for_each, get_word having drawn offset
GetWord(offset) ==
    /\ s_pc = "for_each"
    /\ g_i < PASSPHRASE_WORD_COUNT
    /\ offset \in get_word_offsets(wordlist.v)
    /\ g_passphrase' = g_passphrase \o wordlist.v.words[offset]
                       \o (IF g_i # PASSPHRASE_WORD_COUNT - 1
                           THEN <<PASSPHRASE_WORD_DELIM>> ELSE <<>>)
    /\ g_i' = g_i + 1
    /\ UNCHANGED <<words_alpha, s_pc, wordlist, g_salt, s_crypto, logged, s_config>>
    /\ UNCHANGED <<pvars, vvars, cvars, hs, kvars>>

\* generate_passphrase returns; generate derives the key and the
\* certificate, and main logs the passphrase
Generate ==
    /\ s_pc = "for_each"
    /\ g_i = PASSPHRASE_WORD_COUNT
    /\ LET crypto == generate(SaltedPassphrase(g_salt.v, g_passphrase))
       IN  IF crypto.ok
           THEN /\ s_crypto' = Some(crypto.v)
                /\ logged' = Some(fmt(crypto.v.passphrase))
                /\ s_pc' = "generated"
           ELSE /\ s_pc' = "failed"
                /\ UNCHANGED <<s_crypto, logged>>
    /\ UNCHANGED <<words_alpha, wordlist, g_salt, g_passphrase, g_i, s_config>>
    /\ UNCHANGED <<pvars, vvars, cvars, hs, kvars>>

\* main, listening: QcatCryptoConfig::new and the server's configuration
ServerConfigure ==
    /\ s_pc = "generated"
    /\ LET config == build_server_config(
                         QcatCryptoConfig_new(s_crypto.v.certificate,
                                              s_crypto.v.private_key))
       IN  IF config.ok
           THEN /\ s_config' = Some(config.v)
                /\ s_pc' = "listening"
           ELSE /\ s_pc' = "failed"
                /\ UNCHANGED s_config
    /\ UNCHANGED <<words_alpha, wordlist, g_salt, g_passphrase, g_i, s_crypto, logged>>
    /\ UNCHANGED <<pvars, vvars, cvars, hs, kvars>>

\* main, connecting: the typed string is parsed and the material derived
\* from it; either failure ends main with the error
ClientGenerate ==
    /\ c_pc = "start"
    /\ logged.some
    /\ \E t \in Inputs(logged.v) :
         /\ c_input' = Some(t)
         /\ LET parsed == from_str(t)
            IN  IF ~parsed.ok
                THEN /\ c_err' = Some(parsed.err)
                     /\ c_pc' = "failed"
                     /\ UNCHANGED c_crypto
                ELSE LET crypto == generate_from_passphrase(parsed.v)
                     IN  IF ~crypto.ok
                         THEN /\ c_err' = Some(crypto.err)
                              /\ c_pc' = "failed"
                              /\ UNCHANGED c_crypto
                         ELSE /\ c_crypto' = Some(crypto.v)
                              /\ c_pc' = "generated"
                              /\ UNCHANGED c_err
    /\ UNCHANGED <<c_config, svars, hs, pvars, vvars, kvars>>

\* main, connecting: QcatCryptoConfig::new and the client's configuration
ClientConfigure ==
    /\ c_pc = "generated"
    /\ LET config == build_client_config(
                         QcatCryptoConfig_new(c_crypto.v.certificate,
                                              c_crypto.v.private_key))
       IN  IF config.ok
           THEN /\ c_config' = Some(config.v)
                /\ c_pc' = "ready"
                /\ UNCHANGED c_err
           ELSE /\ c_err' = Some(config.err)
                /\ c_pc' = "failed"
                /\ UNCHANGED c_config
    /\ UNCHANGED <<c_input, c_crypto, svars, hs, pvars, vvars, kvars>>

\* the connecting peer's handshake with the listening peer
ClientConnect ==
    /\ c_pc = "ready"
    /\ s_pc = "listening"
    /\ hs = None
    /\ hs' = Some([peer |-> c_config.v,
                   outcome |-> handshake(c_config.v, s_config.v)])
    /\ UNCHANGED <<svars, cvars, pvars, vvars, kvars>>

\* another peer's handshake with the listening peer: without certificate,
\* with the pinned certificate but not its key, or with its own
IntruderConnect ==
    /\ s_pc = "listening"
    /\ hs = None
    /\ \E chain \in {<<>>, <<s_crypto.v.certificate>>,
                     <<generate_certificate(IntruderKey).v>>} :
         hs' = Some([peer |-> Intruder(chain),
                     outcome |-> handshake(Intruder(chain), s_config.v)])
    /\ UNCHANGED <<svars, cvars, pvars, vvars, kvars>>

Next ==
    \/ GenerateStart
    \/ \E offset \in Offsets : GetSalt(offset)
    \/ \E offset \in Offsets : GetWord(offset)
    \/ Generate
    \/ ServerConfigure
    \/ ClientGenerate
    \/ ClientConfigure
    \/ ClientConnect
    \/ IntruderConnect

(***************************************************************************)
(* A listener: concurrent connections on one shared verifier               *)
(***************************************************************************)

\* connections that are open at the same time
MaxConns == 2

Conns == 1..MaxConns

\* two identities: the pinned one and another
KeyOne == to_pkcs8_der(<<1>>)

KeyTwo == to_pkcs8_der(<<2>>)

IdleConn == [pc |-> "idle"]

ConcInit ==
    /\ p_pc = "off"
    /\ p_S = None
    /\ p_str = <<>>
    /\ p_res = None
    /\ v_pc = "off"
    /\ v_self = None
    /\ v_call = None
    /\ v_ret = None
    /\ words_alpha = <<>>
    /\ s_pc = "off"
    /\ wordlist = None
    /\ g_salt = None
    /\ g_passphrase = <<>>
    /\ g_i = 0
    /\ s_crypto = None
    /\ logged = None
    /\ s_config = None
    /\ c_pc = "off"
    /\ c_input = None
    /\ c_crypto = None
    /\ c_config = None
    /\ c_err = None
    /\ hs = None
    /\ \E key \in {KeyOne, KeyTwo} :
         k_verifier = build_verifier(
                          QcatCryptoConfig_new(generate_certificate(key).v,
                                               key))
    /\ k_listener = "listening"
    /\ k_conns = [c \in Conns |-> IdleConn]

\* the listener accepts a connection and spawns its task; the peer presents
\* a certificate and signs with a key under a scheme
Accept(c) ==
    /\ k_listener = "listening"
    /\ k_conns[c].pc = "idle"
    /\ \E cert_key \in {KeyOne, KeyTwo}, sign_key \in {KeyOne, KeyTwo},
          scheme \in {"ED25519", "ED448", "RSA_PKCS1_SHA256"} :
         k_conns' = [k_conns EXCEPT ![c] =
                       [pc |-> "accepted",
                        error |-> None,
                        end_entity |-> generate_certificate(cert_key).v,
                        dss |-> [scheme |-> scheme,
                                 signature |->
                                   Signature(AlgFor(scheme),
                                             verifying_key(Tail(sign_key)),
                                             Transcript)]]]
    /\ UNCHANGED <<k_verifier, k_listener, pvars, vvars, mvars>>

\* the listener after a connection's handshake has failed: the error stays
\* in the connection's task
after_handshake_error(listener) == listener

\* a faulty verifier: it pins the certificate it has just refused
VerifyClientCert_repin(c) ==
    /\ k_conns[c].pc = "accepted"
    /\ LET verified == verify_client_cert(k_verifier, k_conns[c].end_entity,
                                          <<>>, 0)
       IN  IF verified.ok
           THEN /\ k_conns' = [k_conns EXCEPT ![c].pc = "cert_verified"]
                /\ UNCHANGED <<k_verifier, k_listener>>
           ELSE /\ k_conns' = [k_conns EXCEPT ![c].pc = "aborted",
                                              ![c].error = Some(verified.err)]
                /\ k_verifier' = [k_verifier EXCEPT
                                    !.pinned_cert = k_conns[c].end_entity]
                /\ k_listener' = after_handshake_error(k_listener)
    /\ UNCHANGED <<pvars, vvars, mvars>>

\* a connection's handshake calls verify_client_cert on the shared verifier
VerifyClientCert(c) ==
    /\ k_conns[c].pc = "accepted"
    /\ LET verified == verify_client_cert(k_verifier, k_conns[c].end_entity,
                                          <<>>, 0)
       IN  IF verified.ok
           THEN /\ k_conns' = [k_conns EXCEPT ![c].pc = "cert_verified"]
                /\ UNCHANGED k_listener
           ELSE /\ k_conns' = [k_conns EXCEPT ![c].pc = "aborted",
                                              ![c].error = Some(verified.err)]
                /\ k_listener' = after_handshake_error(k_listener)
    /\ UNCHANGED <<k_verifier, pvars, vvars, mvars>>

\* a connection's handshake calls verify_tls13_signature on it
VerifyClientSignature(c) ==
    /\ k_conns[c].pc = "cert_verified"
    /\ LET verified == ClientCertVerifier_verify_tls13_signature(
                           k_verifier, Transcript, k_conns[c].end_entity,
                           k_conns[c].dss).ret
       IN  IF verified.ok
           THEN /\ k_conns' = [k_conns EXCEPT ![c].pc = "established"]
                /\ UNCHANGED k_listener
           ELSE /\ k_conns' = [k_conns EXCEPT ![c].pc = "aborted",
                                              ![c].error = Some(verified.err)]
                /\ k_listener' = after_handshake_error(k_listener)
    /\ UNCHANGED <<k_verifier, pvars, vvars, mvars>>

\* a connection ends and its task with it
Close(c) ==
    /\ k_conns[c].pc \in {"established", "aborted"}
    /\ k_conns' = [k_conns EXCEPT ![c] = IdleConn]
    /\ UNCHANGED <<k_verifier, k_listener, pvars, vvars, mvars>>

ConcNext ==
    \/ \E c \in Conns : Accept(c)
    \/ \E c \in Conns : VerifyClientCert(c)
    \/ \E c \in Conns : VerifyClientSignature(c)
    \/ \E c \in Conns : Close(c)

\* what a connection's inputs alone make of its handshake
Authentic(conn) ==
    /\ conn.end_entity = k_verifier.pinned_cert
    /\ conn.dss.scheme = "ED25519"
    /\ conn.dss.signature.key = SubSeq(conn.end_entity, 2, Len(conn.end_entity))

\* C9 (states): each connection's result is the one its own inputs give
IsolationState ==
    \A c \in Conns :
      /\ k_conns[c].pc = "established" => Authentic(k_conns[c])
      /\ k_conns[c].pc = "aborted" => ~Authentic(k_conns[c])
      /\ k_conns[c].pc = "cert_verified" =>
           k_conns[c].end_entity = k_verifier.pinned_cert

\* C9 (steps): no step changes the shared verifier or stops the listener,
\* and a step that aborts one connection leaves every other one as it was
IsolationStep ==
    /\ k_verifier' = k_verifier
    /\ k_listener' = "listening"
    /\ \A c \in Conns :
         (k_conns'[c].pc = "aborted" /\ k_conns[c].pc # "aborted")
           => \A d \in Conns \ {c} : k_conns'[d] = k_conns[d]

\* C9: under every interleaving of the connections' verification calls on
\* one shared verifier, the pinned certificate and the algorithm set never
\* change, each call's result depends on its own inputs only, and a failed
\* verification aborts its own handshake only, the listener staying up.
Isolation == [](IsolationState) /\ [][IsolationStep]_vars

\* one connection is aborted while another, begun before, is established
IsolationWitness ==
    \E c, d \in Conns :
      /\ k_conns[c].pc = "aborted"
      /\ k_conns[c].error = Some("InvalidCertificate(InvalidPurpose)")
      /\ k_conns[d].pc = "established"
      /\ k_listener = "listening"

\* the words of the file that are long enough to be a salt
LongWords ==
    {k \in 1..Len(split(words_alpha, NEWLINE)) :
       Len(split(words_alpha, NEWLINE)[k]) >= RECOMMENDED_SALT_LEN}

EndToEndTrust ==
    /\ c_crypto.some =>
         ((c_input.v = logged.v)
            <=> (c_crypto.v.certificate = s_crypto.v.certificate))
    /\ (hs.some /\ hs.v.peer.role = "client") =>
         IF c_input.v = logged.v
         THEN /\ hs.v.outcome.client.ok
              /\ hs.v.outcome.server.ok
              /\ hs.v.outcome.complete
         ELSE /\ hs.v.outcome.client = Err("InvalidCertificate(InvalidPurpose)")
              /\ ~hs.v.outcome.complete

\* the typed string had the logged salt and another last word, and the
\* handshake was refused
EndToEndTrustWitness ==
    /\ hs.some
    /\ hs.v.peer.role = "client"
    /\ c_input.v # logged.v
    /\ c_crypto.v.passphrase.salt = s_crypto.v.passphrase.salt
    /\ ~hs.v.outcome.client.ok

\* C7: every salt get_salt returns, and so the salt of every generated
\* SaltedPassphrase, is at least RECOMMENDED_SALT_LEN bytes long.
SaltLength ==
    /\ g_salt.some => Len(g_salt.v) >= RECOMMENDED_SALT_LEN
    /\ s_crypto.some =>
         Len(salt_as_bytes(s_crypto.v.passphrase)) >= RECOMMENDED_SALT_LEN
    /\ logged.some =>
         FindFrom(logged.v, PASSPHRASE_WORD_DELIM, 1) > RECOMMENDED_SALT_LEN

\* a salt was returned from a list that also holds shorter, non-empty words
SaltLengthWitness ==
    /\ g_salt.some
    /\ s_crypto.some
    /\ \E k \in 1..Len(wordlist.v.words) :
         /\ Len(wordlist.v.words[k]) > 0
         /\ Len(wordlist.v.words[k]) < RECOMMENDED_SALT_LEN

\* what C8 asks of a configuration built over certificate C
Assembled(config, C) ==
    /\ config.versions = {"TLS13"}
    /\ config.alpn_protocols = << <<113, 99, 97, 116>> >>
    /\ config.cert_chain = <<C>>
    /\ config.verifier.some
    /\ config.verifier.v.pinned_cert = C

\* C8: each built configuration allows TLS 1.3 only, advertises only
\* "qcat", presents the certificate C it was built over and pins its
\* verifier to C; no handshake with the server completes unless the client
\* presented C.
ConfigAssembly ==
    /\ s_config.some => Assembled(s_config.v, s_crypto.v.certificate)
    /\ c_config.some => Assembled(c_config.v, c_crypto.v.certificate)
    /\ (hs.some /\ hs.v.outcome.complete) =>
         hs.v.peer.cert_chain = <<s_crypto.v.certificate>>

\* both configurations were built, and a client without certificate was
\* refused
ConfigAssemblyWitness ==
    /\ s_config.some
    /\ c_config.some
    /\ hs.some
    /\ hs.v.peer.cert_chain = <<>>
    /\ hs.v.outcome.server = Err("NoCertificatesPresented")

\* C10: get_salt returns in the end, under fair draws, when the list holds
\* a word of RECOMMENDED_SALT_LEN bytes or more; when it holds none,
\* get_salt never returns and generate neither fails nor completes.
SaltTermination ==
    /\ (LongWords # {}) => <>(g_salt.some)
    /\ (LongWords = {}) =>
         [](/\ ~g_salt.some
            /\ s_pc \in {"start", "get_salt"}
            /\ ~s_crypto.some)

\* get_salt is looping over a list of several words, none long enough
SaltTerminationWitness ==
    /\ s_pc = "get_salt"
    /\ Len(wordlist.v.words) > 1
    /\ LongWords = {}

(***************************************************************************)
(* Specifications                                                          *)
(***************************************************************************)

SpecParse == ParseInit /\ [][ParseNext]_vars

SpecVerify == VerifyInit /\ [][VerifyNext]_vars

Spec == Init /\ [][Next]_vars

SpecConc == ConcInit /\ [][ConcNext]_vars

\* every offset keeps being drawn: OsRng gives each one a positive chance
\* at every draw
LiveSpec ==
    /\ Spec
    /\ WF_vars(GenerateStart)
    /\ \A offset \in Offsets : WF_vars(GetSalt(offset))

=============================================================================
